---- MODULE Spec2Model ----
(***************************************************************************)
(* EventService of shl-server-rs (src/src/event_service.rs): the           *)
(* staleness-gated update of the raw event cache, the upserts store_raw    *)
(* and store, and the cache-only read, called one after the other and      *)
(* from concurrent tasks; and the conversions PenaltyInfo::new, to_type,   *)
(* should_publish, parse_toi (player_service.rs) and the statistics        *)
(* snapshot (stats_service.rs).                                            *)
(*                                                                         *)
(* The keyed store crate::db::Db is not part of the sources at hand; its   *)
(* read / write / is_stale are modelled from the specification's           *)
(* description of a cache entry (value + last-write timestamp).            *)
(*                                                                         *)
(* Option<T> is modelled as a sequence of length 0 (None) or 1 (Some).     *)
(***************************************************************************)
EXTENDS Integers, Sequences, FiniteSets, TLC

\* ---------------------------------------------------------------- bounds
MaxFetchLen == 1    \* longest sequence the upstream returns
MaxTime == 2        \* the clock runs 0..MaxTime
MaxTTL == 2         \* throttle values are 1..MaxTTL (or None)
MaxOps == 3         \* number of service calls in a run
MaxShortOps == 2    \* the same, in the short runs

\* the games, the event ids and the revisions of a run; the code compares
\* event ids for equality only and never looks at a revision
Keys == {"g1", "g2"}
EventIds == {1, 2}
Revisions == {1, 2}

None == <<>>
Some(x) == <<x>>

\* Option::unwrap_or_default for Option<Vec<_>>
unwrap_or_default(o) == IF o = None THEN <<>> ELSE o[1]

\* external::event::PlayByPlay, reduced to identity and revision
RawEvents == [eventId : EventIds, revision : Revisions]

RECURSIVE SeqsUpTo(_, _)
SeqsUpTo(S, n) ==
    IF n = 0 THEN {<<>>}
    ELSE LET shorter == SeqsUpTo(S, n - 1)
         IN  shorter \cup {Append(s, x) : s \in {t \in shorter : Len(t) = n - 1}, x \in S}

\* what rest_client::get_events can answer: None, or any sequence of raw events
FetchResults == {None} \cup {Some(s) : s \in SeqsUpTo(RawEvents, MaxFetchLen)}

Throttles == {None} \cup {Some(t) : t \in 1..MaxTTL}

\* format!("{}", n) for a non-negative integer
Digit == <<"0", "1", "2", "3", "4", "5", "6", "7", "8", "9">>

RECURSIVE format(_)
format(n) == IF n < 10 THEN Digit[n + 1] ELSE format(n \div 10) \o Digit[(n % 10) + 1]

\* PlayByPlay::into_mapped_event
into_mapped_event(e, game_uuid) ==
    [game_uuid |-> game_uuid, event_id |-> format(e.eventId), revision |-> e.revision]

\* raw_events.into_iter().map(|e| e.into_mapped_event(game_uuid)).collect()
map_events(raw_events, game_uuid) ==
    [i \in 1..Len(raw_events) |-> into_mapped_event(raw_events[i], game_uuid)]

\* the domain events of one game
ApiGameEvents(game_uuid) == {into_mapped_event(e, game_uuid) : e \in RawEvents}

\* ------------------------------------------------------------ keyed store
\* Db::read: the stored value, None when nothing was written under the key
DbRead(d, key) == IF d[key] = None THEN None ELSE Some(d[key][1].val)

\* Db::write: replaces the value and stamps the entry with the time of the write
DbWrite(d, key, value, t) == [d EXCEPT ![key] = Some([val |-> value, ts |-> t])]

\* Db::is_stale: no TTL, no entry, or an entry older than the TTL
DbIsStale(d, key, ttl, t) ==
    IF ttl = None \/ d[key] = None THEN TRUE ELSE t - d[key][1].ts > ttl[1]

\* ------------------------------------------------------------------ state
VARIABLES
    db_raw,      \* namespace "v2_events_raw": key -> Option [val, ts]
    db,          \* namespace "v2_events_2":   key -> Option [val, ts]
    now,         \* the clock
    fetched_at,  \* key -> Option time of the last call of get_events(key)
    opCount,     \* number of service calls made
    cap,         \* number of service calls the run may make
    last,        \* the last service call: its arguments and what it returned
    tasks,       \* the service calls in progress in concurrent tasks
    call,        \* the call of a conversion: the function and its argument
    ret          \* Option of what that call returned

vars == <<db_raw, db, now, fetched_at, opCount, cap, last, tasks, call, ret>>

\* op, key, arg: the call;  fetched: get_events was called;  rsp: its answer;
\* result: what update returned;  events: what read returned;
\* new_event: what store / store_raw returned;  old: the record it replaced;
\* again: the call before was the same call with the same arguments
NoCall == [op |-> "none", key |-> "", arg |-> None, fetched |-> FALSE, rsp |-> None,
           result |-> None, events |-> <<>>, new_event |-> FALSE, old |-> None,
           again |-> FALSE]

SameCall(op, key, event) == last.op = op /\ last.key = key /\ last.arg = Some(event)

\* both namespaces empty
Empty ==
    /\ db_raw = [k \in Keys |-> None]
    /\ db = [k \in Keys |-> None]
    /\ now = 0
    /\ fetched_at = [k \in Keys |-> None]
    /\ opCount = 0
    /\ last = NoCall

\* the tasks that call the service concurrently
Tasks == {"a", "b"}

\* pc: where the task is in its call;  op, key, arg: the call;
\* events: the sequence the call has read;  new_event: what it returned
IdleTask == [pc |-> "idle", op |-> "none", key |-> "", arg |-> None,
             events |-> <<>>, new_event |-> FALSE]

NoInput == [fn |-> "none"]

\* no task is in a call and no conversion is called
Quiet ==
    /\ tasks = [t \in Tasks |-> IdleTask]
    /\ call = NoInput
    /\ ret = None

Init == Empty /\ Quiet /\ cap = MaxOps

InitShort == Empty /\ Quiet /\ cap = MaxShortOps

\* ------------------------------------------------------------- operations
\* events.iter().position(|e| e.eventId == id): first index, 0 for None
position_raw(events, id) ==
    IF \E i \in 1..Len(events) : events[i].eventId = id
    THEN CHOOSE i \in 1..Len(events) :
            /\ events[i].eventId = id
            /\ \A j \in 1..(i - 1) : events[j].eventId # id
    ELSE 0

\* variant of position: the id is never found
position_none(events, id) == 0

\* events.iter().position(|e| e.event_id == id): first index, 0 for None
position(events, id) ==
    IF \E i \in 1..Len(events) : events[i].event_id = id
    THEN CHOOSE i \in 1..Len(events) :
            /\ events[i].event_id = id
            /\ \A j \in 1..(i - 1) : events[j].event_id # id
    ELSE 0

\* the record store_raw / store overwrites, None when it appends
replaced_raw(events, id) ==
    IF position_raw(events, id) = 0 THEN None ELSE Some(events[position_raw(events, id)])

replaced(events, id) ==
    IF position(events, id) = 0 THEN None ELSE Some(events[position(events, id)])

\* variant of store_raw_events: the record found is removed and the new one pushed
store_raw_events_moved(events, event) ==
    LET pos == position_raw(events, event.eventId)
    IN  IF pos # 0
        THEN Append(SubSeq(events, 1, pos - 1) \o SubSeq(events, pos + 1, Len(events)), event)
        ELSE Append(events, event)

\* store_raw, lines 222-228: the vector written back and the flag returned
store_raw_events(events, event) ==
    LET pos == position_raw(events, event.eventId)
    IN  IF pos # 0 THEN [events EXCEPT ![pos] = event] ELSE Append(events, event)

\* variant of store_raw_new_event: the flag is set on both branches
store_raw_new_event_always(events, event) == TRUE

store_raw_new_event(events, event) == position_raw(events, event.eventId) = 0

\* variant of store_events: the record is pushed without looking for its id
store_events_pushed(events, event) == Append(events, event)

\* store, lines 237-243: the vector written back and the flag returned
store_events(events, event) ==
    LET pos == position(events, event.event_id)
    IN  IF pos # 0 THEN [events EXCEPT ![pos] = event] ELSE Append(events, event)

store_new_event(events, event) == position(events, event.event_id) = 0

\* variant of update_uses_cache: the throttle is not handed to is_stale
update_uses_cache_unthrottled(d, game_uuid, throttle_s, t) == ~DbIsStale(d, game_uuid, None, t)

\* update, line 208: the cache is used when the raw entry is not stale
update_uses_cache(d, game_uuid, throttle_s, t) == ~DbIsStale(d, game_uuid, throttle_s, t)

\* variant of update_raw_events: a failed fetch falls back to the cached value
update_raw_events_keep(d, game_uuid, throttle_s, t, rsp) ==
    IF update_uses_cache(d, game_uuid, throttle_s, t) \/ rsp = None
    THEN unwrap_or_default(DbRead(d, game_uuid))
    ELSE unwrap_or_default(rsp)

\* update, lines 208-212: raw_events, given the answer of get_events when it is called
update_raw_events(d, game_uuid, throttle_s, t, rsp) ==
    IF update_uses_cache(d, game_uuid, throttle_s, t)
    THEN unwrap_or_default(DbRead(d, game_uuid))
    ELSE unwrap_or_default(rsp)

\* update, line 213: what happens to the raw namespace
update_write(d, game_uuid, raw_events, t) == DbWrite(d, game_uuid, raw_events, t)

\* EventService::update, with the cache fresh: no call of get_events
update_cached(game_uuid, throttle_s) ==
    /\ opCount < cap
    /\ update_uses_cache(db_raw, game_uuid, throttle_s, now)
    /\ LET raw_events == update_raw_events(db_raw, game_uuid, throttle_s, now, None)
       IN  /\ db_raw' = update_write(db_raw, game_uuid, raw_events, now)
           /\ last' = [NoCall EXCEPT !.op = "update", !.key = game_uuid,
                          !.result = Some(map_events(raw_events, game_uuid))]
    /\ opCount' = opCount + 1
    /\ UNCHANGED <<db, now, fetched_at, cap, tasks, call, ret>>

\* EventService::update, with the cache stale: get_events is called,
\* answers rsp, and the answer is written
update_fetch(game_uuid, throttle_s, rsp) ==
    /\ opCount < cap
    /\ ~update_uses_cache(db_raw, game_uuid, throttle_s, now)
    /\ LET raw_events == update_raw_events(db_raw, game_uuid, throttle_s, now, rsp)
       IN  /\ db_raw' = update_write(db_raw, game_uuid, raw_events, now)
           /\ last' = [NoCall EXCEPT !.op = "update", !.key = game_uuid,
                          !.fetched = TRUE, !.rsp = Some(rsp),
                          !.result = Some(map_events(raw_events, game_uuid))]
    /\ fetched_at' = [fetched_at EXCEPT ![game_uuid] = Some(now)]
    /\ opCount' = opCount + 1
    /\ UNCHANGED <<db, now, cap, tasks, call, ret>>

\* variant of store_raw: the mapped record is stored in the domain namespace too
store_raw_and_mapped(game_uuid, event) ==
    /\ opCount < cap
    /\ LET events == unwrap_or_default(DbRead(db_raw, game_uuid))
       IN  /\ db_raw' = DbWrite(db_raw, game_uuid, store_raw_events(events, event), now)
           /\ db' = DbWrite(db, game_uuid,
                            store_events(unwrap_or_default(DbRead(db, game_uuid)),
                                         into_mapped_event(event, game_uuid)), now)
           /\ last' = [NoCall EXCEPT !.op = "store_raw", !.key = game_uuid,
                          !.arg = Some(event),
                          !.old = replaced_raw(events, event.eventId),
                          !.again = SameCall("store_raw", game_uuid, event),
                          !.new_event = store_raw_new_event(events, event)]
    /\ opCount' = opCount + 1
    /\ UNCHANGED <<now, fetched_at, cap, tasks, call, ret>>

\* EventService::store_raw
store_raw(game_uuid, event) ==
    /\ opCount < cap
    /\ LET events == unwrap_or_default(DbRead(db_raw, game_uuid))
       IN  /\ db_raw' = DbWrite(db_raw, game_uuid, store_raw_events(events, event), now)
           /\ last' = [NoCall EXCEPT !.op = "store_raw", !.key = game_uuid,
                          !.arg = Some(event),
                          !.old = replaced_raw(events, event.eventId),
                          !.again = SameCall("store_raw", game_uuid, event),
                          !.new_event = store_raw_new_event(events, event)]
    /\ opCount' = opCount + 1
    /\ UNCHANGED <<db, now, fetched_at, cap, tasks, call, ret>>

\* variant of store: a stored record of higher revision is kept
store_checks_revision(game_uuid, event) ==
    /\ opCount < cap
    /\ LET events == unwrap_or_default(DbRead(db, game_uuid))
           pos == position(events, event.event_id)
           kept == IF pos # 0 /\ events[pos].revision > event.revision
                   THEN events
                   ELSE store_events(events, event)
       IN  /\ db' = DbWrite(db, game_uuid, kept, now)
           /\ last' = [NoCall EXCEPT !.op = "store", !.key = game_uuid,
                          !.arg = Some(event),
                          !.old = replaced(events, event.event_id),
                          !.again = SameCall("store", game_uuid, event),
                          !.new_event = store_new_event(events, event)]
    /\ opCount' = opCount + 1
    /\ UNCHANGED <<db_raw, now, fetched_at, cap, tasks, call, ret>>

\* EventService::store
store(game_uuid, event) ==
    /\ opCount < cap
    /\ LET events == unwrap_or_default(DbRead(db, game_uuid))
       IN  /\ db' = DbWrite(db, game_uuid, store_events(events, event), now)
           /\ last' = [NoCall EXCEPT !.op = "store", !.key = game_uuid,
                          !.arg = Some(event),
                          !.old = replaced(events, event.event_id),
                          !.again = SameCall("store", game_uuid, event),
                          !.new_event = store_new_event(events, event)]
    /\ opCount' = opCount + 1
    /\ UNCHANGED <<db_raw, now, fetched_at, cap, tasks, call, ret>>

\* EventService::read: the value of the raw namespace, as the store hands it out
read_events(d, game_uuid) == unwrap_or_default(DbRead(d, game_uuid))

\* variant of read: what was read is written back, as update does
read_writes_back(game_uuid) ==
    /\ opCount < cap
    /\ db_raw' = DbWrite(db_raw, game_uuid, read_events(db_raw, game_uuid), now)
    /\ last' = [NoCall EXCEPT !.op = "read", !.key = game_uuid,
                   !.events = read_events(db_raw, game_uuid)]
    /\ opCount' = opCount + 1
    /\ UNCHANGED <<db, now, fetched_at, cap, tasks, call, ret>>

read(game_uuid) ==
    /\ opCount < cap
    /\ last' = [NoCall EXCEPT !.op = "read", !.key = game_uuid,
                   !.events = read_events(db_raw, game_uuid)]
    /\ opCount' = opCount + 1
    /\ UNCHANGED <<db_raw, db, now, fetched_at, cap, tasks, call, ret>>

\* time passes between calls
Tick ==
    /\ now < MaxTime
    /\ now' = now + 1
    /\ UNCHANGED <<db_raw, db, fetched_at, opCount, cap, last, tasks, call, ret>>

\* The step an update takes depends on throttle_s through the staleness test
\* alone, so one throttle per branch stands for all that lead into the branch.
CachedThrottles(k) == {t \in Throttles : update_uses_cache(db_raw, k, t, now)}
FetchThrottles(k) == {t \in Throttles : ~update_uses_cache(db_raw, k, t, now)}

update_from_cache(k) ==
    /\ CachedThrottles(k) # {}
    /\ update_cached(k, CHOOSE t \in CachedThrottles(k) : TRUE)

update_from_upstream(k, rsp) ==
    /\ FetchThrottles(k) # {}
    /\ update_fetch(k, CHOOSE t \in FetchThrottles(k) : TRUE, rsp)

Next ==
    \/ \E k \in Keys : update_from_cache(k)
    \/ \E k \in Keys, rsp \in FetchResults : update_from_upstream(k, rsp)
    \/ \E k \in Keys, e \in RawEvents : store_raw(k, e)
    \/ \E k \in Keys : \E e \in ApiGameEvents(k) : store(k, e)
    \/ \E k \in Keys : read(k)
    \/ Tick

Spec == Init /\ [][Next]_vars

\* the upserts and the read alone
NextStore ==
    \/ \E k \in Keys, e \in RawEvents : store_raw(k, e)
    \/ \E k \in Keys : \E e \in ApiGameEvents(k) : store(k, e)
    \/ \E k \in Keys : read(k)
    \/ Tick

SpecStore == Init /\ [][NextStore]_vars

\* every operation, in short runs
SpecShort == InitShort /\ [][Next]_vars

\* the operations on the raw namespace alone, in short runs
NextUpdate ==
    \/ \E k \in Keys : update_from_cache(k)
    \/ \E k \in Keys, rsp \in FetchResults : update_from_upstream(k, rsp)
    \/ \E k \in Keys, e \in RawEvents : store_raw(k, e)
    \/ \E k \in Keys : read(k)
    \/ Tick

SpecUpdate == InitShort /\ [][NextUpdate]_vars

\* ------------------------------------------------------------ conversions
\* A String is the sequence of its characters.
MaxDescParts == 3   \* a description is made of at most this many pieces

RECURSIVE Concats(_, _)
\* the strings made of at most n pieces of P
Concats(P, n) ==
    IF n = 0 THEN {<<>>}
    ELSE LET shorter == Concats(P, n - 1) IN shorter \cup {s \o p : s \in shorter, p \in P}

\* str::find: the index of the first occurrence of pat in s, 0 for None
find(s, pat) ==
    IF \E i \in 1..(Len(s) - Len(pat) + 1) : SubSeq(s, i, i + Len(pat) - 1) = pat
    THEN CHOOSE i \in 1..(Len(s) - Len(pat) + 1) :
            /\ SubSeq(s, i, i + Len(pat) - 1) = pat
            /\ \A j \in 1..(i - 1) : SubSeq(s, j, j + Len(pat) - 1) # pat
    ELSE 0

\* str::split_once: what stands before and after the first occurrence of pat
split_once(s, pat) ==
    LET i == find(s, pat)
    IN  IF i = 0 THEN None
        ELSE Some(<<SubSeq(s, 1, i - 1), SubSeq(s, i + Len(pat), Len(s))>>)

RECURSIVE split(_, _)
\* str::split(pat).collect(): the pieces between the occurrences of pat
split(s, pat) ==
    LET i == find(s, pat)
    IN  IF i = 0 THEN <<s>>
        ELSE <<SubSeq(s, 1, i - 1)>> \o split(SubSeq(s, i + Len(pat), Len(s)), pat)

RECURSIVE replace(_, _, _)
\* str::replace: every occurrence of from, left to right, becomes to
replace(s, from, to) ==
    LET i == find(s, from)
    IN  IF i = 0 THEN s
        ELSE SubSeq(s, 1, i - 1) \o to \o replace(SubSeq(s, i + Len(from), Len(s)), from, to)

\* Player::from_str followed by Result::ok: the parse never fails
Player_from_str(s) ==
    LET parts == split(s, <<" ">>)
        jersey == parts[1]
        first_name == IF Len(parts) >= 2 THEN parts[2] ELSE <<>>
        family_name == replace(s, jersey \o <<" ">> \o first_name, <<>>)
    IN  Some([jersey |-> jersey, first_name |-> first_name, family_name |-> family_name])

\* PenaltyInfo::new
PenaltyInfo_new(description, team) ==
    LET marker == split_once(description, <<"u", "t", "v", "i", "s", "a", "s", " ">>)
        player_info == IF marker = None THEN None ELSE Some(marker[1][1])
        penalty_info == IF marker = None THEN None ELSE Some(marker[1][2])
        comma == split_once(unwrap_or_default(penalty_info), <<",">>)
        penalty == IF comma = None THEN None ELSE Some(comma[1][1])
        reason == IF comma = None THEN None ELSE Some(comma[1][2])
        player == Player_from_str(unwrap_or_default(player_info))
    IN  [team |-> team, player |-> player, reason |-> reason, penalty |-> penalty]

\* the pieces descriptions are made of, and the descriptions
DescriptionParts ==
    {<<"5", " ", "K", "a", "r", "l", " ", "K", "a", "r", "l", "s", "s", "o", "n", " ">>,
     <<"u", "t", "v", "i", "s", "a", "s", " ">>,
     <<"2", " ", "m", "i", "n">>,
     <<"2", " ", "m", "i", "n", ",", " ", "H", "o", "o", "k", "i", "n", "g">>,
     <<"T", "i", "m", "e", "o", "u", "t">>,
     <<",">>}

Descriptions == Concats(DescriptionParts, MaxDescParts)

Teams == {"home", "away"}

PenaltyInfoCalls ==
    {[fn |-> "PenaltyInfo::new", description |-> d, team |-> t] : d \in Descriptions, t \in Teams}

\* no service call is made while a conversion is called
Stores == <<db_raw, db, now, fetched_at, opCount, cap, last, tasks>>

call_PenaltyInfo_new ==
    /\ call.fn = "PenaltyInfo::new" /\ ret = None
    /\ ret' = Some(PenaltyInfo_new(call.description, call.team))
    /\ UNCHANGED <<Stores, call>>

\* PlayByPlayType, the classes of a raw event
Classes ==
    {"General", "Livefeed", "GoolkeeperEvent", "Goal", "Shot", "ShotBlocked", "ShotWide",
     "ShotIron", "PenaltyShot", "ShootoutPenaltyShot", "Penalty", "Timeout", "Period"}

\* what a raw period event may carry as a.extra.gameStatus
GameStatusStrings ==
    {<<"P", "l", "a", "y", "i", "n", "g">>, <<"p", "l", "a", "y", "i", "n", "g">>, <<"P", "L", "A", "Y", "I", "N", "G">>, <<"P", "l", "a", "y", "i", "n", "g", " ">>, <<" ", "P", "l", "a", "y", "i", "n", "g">>, <<"P", "l", "a", "y", "i", "n">>, <<>>,
     <<"E", "n", "d", "e", "d">>, <<"I", "n", "t", "e", "r", "m", "i", "s", "s", "i", "o", "n">>, <<"O", "v", "e", "r", "t", "i", "m", "e">>, <<"S", "h", "o", "o", "t", "O", "u", "t">>}

\* external::event::PlayByPlay, reduced to what to_type reads: the class,
\* the description, and of the class's payload the team and the game status
PlayByPlays ==
    {[class |-> c, description |-> <<"T", "i", "m", "e", "o", "u", "t">>, team |-> t, gameStatus |-> <<>>] :
        c \in Classes \ {"Penalty", "Period"}, t \in Teams}
    \cup {[class |-> "Penalty", description |-> d, team |-> t, gameStatus |-> <<>>] :
            d \in Concats(DescriptionParts, 1), t \in Teams}
    \cup {[class |-> "Period", description |-> <<>>, team |-> "home", gameStatus |-> g] :
            g \in GameStatusStrings}

NoInfo == <<>>

\* variant of period_type: a status that begins with "Playing" starts a period
period_type_prefix(gameStatus) ==
    IF find(gameStatus, <<"P", "l", "a", "y", "i", "n", "g">>) = 1 THEN "PeriodStart" ELSE "PeriodEnd"

\* to_type, lines 152-155
period_type(gameStatus) ==
    IF gameStatus = <<"P", "l", "a", "y", "i", "n", "g">> THEN "PeriodStart" ELSE "PeriodEnd"

\* PlayByPlay::to_type; GoalInfo and ShotInfo are reduced to the team
to_type(e) ==
    CASE e.class \in {"General", "Livefeed", "GoolkeeperEvent"} ->
            [tag |-> "General", info |-> NoInfo]
      [] e.class = "Goal" -> [tag |-> "Goal", info |-> [team |-> e.team]]
      [] e.class \in {"Shot", "ShotBlocked", "ShotWide", "ShotIron", "PenaltyShot",
                      "ShootoutPenaltyShot"} ->
            [tag |-> "Shot", info |-> [team |-> e.team]]
      [] e.class = "Penalty" ->
            [tag |-> "Penalty", info |-> PenaltyInfo_new(e.description, e.team)]
      [] e.class = "Timeout" -> [tag |-> "Timeout", info |-> NoInfo]
      [] e.class = "Period" -> [tag |-> period_type(e.gameStatus), info |-> NoInfo]

ToTypeCalls == {[fn |-> "to_type", event |-> e] : e \in PlayByPlays}

call_to_type ==
    /\ call.fn = "to_type" /\ ret = None
    /\ ret' = Some(to_type(call.event))
    /\ UNCHANGED <<Stores, call>>

\* ApiEventType: the nine variants with their payloads
ApiEventTypes ==
    {[tag |-> t, info |-> NoInfo] :
        t \in {"PeriodEnd", "PeriodStart", "GameStart", "Timeout", "General"}}
    \cup {[tag |-> t, info |-> [team |-> m]] : t \in {"Goal", "Shot"}, m \in Teams}
    \cup {[tag |-> "GameEnd", info |-> [winner |-> w]] : w \in {None, Some("home")}}
    \cup {[tag |-> "Penalty", info |-> PenaltyInfo_new(d, m)] :
            d \in Concats(DescriptionParts, 1), m \in Teams}

GameStatuses == {"Coming", "Period1", "Finished"}

\* ApiGameEvent with its info
ApiGameEventsWithInfo ==
    [game_uuid : {"g1"}, event_id : {"1"}, revision : Revisions, status : GameStatuses,
     gametime : {<<"0", "0", ":", "0", "0">>}, description : {<<>>, <<"T", "i", "m", "e", "o", "u", "t">>}, info : ApiEventTypes]

\* variant of should_publish: the end of a game is not published
should_publish_no_end(e) == e.info.tag \in {"Goal", "GameStart"}

\* ApiGameEvent::should_publish
should_publish(e) == e.info.tag \in {"Goal", "GameStart", "GameEnd"}

ShouldPublishCalls == {[fn |-> "should_publish", event |-> e] : e \in ApiGameEventsWithInfo}

call_should_publish ==
    /\ call.fn = "should_publish" /\ ret = None
    /\ ret' = Some(should_publish(call.event))
    /\ UNCHANGED <<Stores, call>>

\* ---- player_service.rs: parse_toi
MaxToiParts == 3    \* a time-on-ice string is made of at most this many pieces

I32Max == 2147483647
I32Min == (-2147483647) - 1

IsDigit(c) == \E i \in 1..10 : Digit[i] = c
DigitValue(c) == (CHOOSE i \in 1..10 : Digit[i] = c) - 1

RECURSIVE checked_decimal(_, _)
\* the digits ds read as i32 the way i32::from_str accumulates them, towards
\* I32Max, or towards I32Min when negative; None on overflow
checked_decimal(ds, negative) ==
    IF ds = <<>> THEN Some(0)
    ELSE LET p == checked_decimal(SubSeq(ds, 1, Len(ds) - 1), negative)
             d == DigitValue(ds[Len(ds)])
         IN  IF p = None THEN None
             ELSE IF negative
                  THEN IF p[1] < (d + I32Min + 9) \div 10 THEN None ELSE Some(p[1] * 10 - d)
                  ELSE IF p[1] > (I32Max - d) \div 10 THEN None ELSE Some(p[1] * 10 + d)

\* str::parse::<i32>().ok(): an optional sign and at least one digit, in range
parse_i32(s) ==
    LET signed == IF s = <<>> THEN FALSE ELSE s[1] \in {"+", "-"}
        negative == IF signed THEN s[1] = "-" ELSE FALSE
        ds == IF signed THEN Tail(s) ELSE s
    IN  IF ds = <<>> THEN None
        ELSE IF \E i \in 1..Len(ds) : ~IsDigit(ds[i]) THEN None
        ELSE checked_decimal(ds, negative)

\* i32 arithmetic on 16-bit halves: the wrapped result of an operation
I32(h, l) == (((h + 32768) % 65536) - 32768) * 65536 + l
wrapping_mul60(x) ==
    LET l == (x % 65536) * 60 IN I32((x \div 65536) * 60 + l \div 65536, l % 65536)
wrapping_add(x, y) ==
    LET l == (x % 65536) + (y % 65536)
    IN  I32((x \div 65536) + (y \div 65536) + l \div 65536, l % 65536)

mul60_overflows(x) == x > I32Max \div 60 \/ x < -(I32Max \div 60)
add_overflows(x, y) ==
    IF y > 0 THEN x > I32Max - y ELSE IF y < 0 THEN x < I32Min - y ELSE FALSE

\* Option<i32>::unwrap_or_default
unwrap_or_zero(o) == IF o = None THEN 0 ELSE o[1]

\* parse_toi: what a call can do.  On overflow of min * 60 + secs a build
\* with overflow checks panics and a build without them wraps.
parse_toi(s) ==
    LET parts == split_once(s, <<":">>)
        min_str == IF parts = None THEN <<"0">> ELSE parts[1][1]
        secs_str == IF parts = None THEN <<"0">> ELSE parts[1][2]
        min == unwrap_or_zero(parse_i32(min_str))
        secs == unwrap_or_zero(parse_i32(secs_str))
        wrapped == wrapping_add(wrapping_mul60(min), secs)
        overflows == IF mul60_overflows(min) THEN TRUE
                     ELSE add_overflows(min * 60, secs)
    IN  IF overflows
        THEN {[panicked |-> TRUE, value |-> 0], [panicked |-> FALSE, value |-> wrapped]}
        ELSE {[panicked |-> FALSE, value |-> wrapped]}

ToiParts == {<<"1", "2">>, <<"3", "4">>, <<":">>, <<"x">>, <<"3", "5", "7", "9", "1", "3", "9", "5">>}

ParseToiCalls == {[fn |-> "parse_toi", s |-> s] : s \in Concats(ToiParts, MaxToiParts)}

call_parse_toi ==
    /\ call.fn = "parse_toi" /\ ret = None
    /\ \E outcome \in parse_toi(call.s) : ret' = Some(outcome)
    /\ UNCHANGED <<Stores, call>>

\* ---- stats_service.rs: From<GameStatsV2> for GHomeAwayStats
MaxStats == 3       \* the statistics of the "Total" period hold at most this many entries

Captions == {"G", "SOG", "PIM", "FOWon", "Hits"}

\* one statistic: a caption with the value of each team
StatEntries ==
    {[caption |-> c, homeTeamValue |-> v, awayTeamValue |-> v + 10] :
        c \in Captions, v \in {1, 2}}

Stat(c, v) == [caption |-> c, homeTeamValue |-> v, awayTeamValue |-> v + 10]

\* GameStatsV2::period_stats_breakdown: at most one period before the first
\* "Total", the "Total" period if there is one, and what may follow it
Breakdowns ==
    {before \o total \o after :
        before \in {<<>>, <<[period |-> "1", statistics |-> <<Stat("G", 5), Stat("PIM", 6)>>]>>},
        total \in {<<>>} \cup {<<[period |-> "Total", statistics |-> l]>> :
                                 l \in SeqsUpTo(StatEntries, MaxStats)},
        after \in {<<>>, <<[period |-> "Total",
                            statistics |-> <<Stat("G", 7), Stat("SOG", 7), Stat("PIM", 7),
                                             Stat("FOWon", 7)>>]>>}}

\* variant of find_total: the first period entry, whatever its label
find_first_period(breakdown) ==
    IF breakdown = <<>> THEN None ELSE Some(breakdown[1].statistics)

\* lines 24-26: the statistics of the first period entry labelled "Total"
find_total(breakdown) ==
    IF \E i \in 1..Len(breakdown) : breakdown[i].period = "Total"
    THEN Some(breakdown[CHOOSE i \in 1..Len(breakdown) :
                           /\ breakdown[i].period = "Total"
                           /\ \A j \in 1..(i - 1) : breakdown[j].period # "Total"].statistics)
    ELSE None

\* lines 28-31: stats.as_ref().and_then(|e| e.iter().find(|e| e.caption == c))
find_caption(stats, c) ==
    IF stats = None THEN None
    ELSE IF \E i \in 1..Len(stats[1]) : stats[1][i].caption = c
    THEN Some(stats[1][CHOOSE i \in 1..Len(stats[1]) :
                          /\ stats[1][i].caption = c
                          /\ \A j \in 1..(i - 1) : stats[1][j].caption # c])
    ELSE None

\* o.map(|e| e.homeTeamValue).unwrap_or_default(), and the same for away
home_value(o) == IF o = None THEN 0 ELSE o[1].homeTeamValue
away_value(o) == IF o = None THEN 0 ELSE o[1].awayTeamValue

\* From<GameStatsV2> for GHomeAwayStats
GHomeAwayStats_from(breakdown) ==
    LET stats == find_total(breakdown)
        goals == find_caption(stats, "G")
        sog == find_caption(stats, "SOG")
        fow == find_caption(stats, "FOWon")
        pim == find_caption(stats, "PIM")
    IN  [home |-> [g |-> home_value(goals), sog |-> home_value(sog),
                   pim |-> home_value(pim), fow |-> home_value(fow)],
         away |-> [g |-> away_value(goals), sog |-> away_value(sog),
                   pim |-> away_value(pim), fow |-> away_value(fow)]]

StatsCalls == {[fn |-> "GHomeAwayStats::from", breakdown |-> b] : b \in Breakdowns}

call_GHomeAwayStats_from ==
    /\ call.fn = "GHomeAwayStats::from" /\ ret = None
    /\ ret' = Some(GHomeAwayStats_from(call.breakdown))
    /\ UNCHANGED <<Stores, call>>

InitMap ==
    /\ Empty /\ cap = 0
    /\ tasks = [t \in Tasks |-> IdleTask]
    /\ ret = None
    /\ \/ call \in PenaltyInfoCalls
       \/ call \in ToTypeCalls
       \/ call \in ShouldPublishCalls
       \/ call \in ParseToiCalls
       \/ call \in StatsCalls

NextMap ==
    \/ call_PenaltyInfo_new
    \/ call_to_type
    \/ call_should_publish
    \/ call_parse_toi
    \/ call_GHomeAwayStats_from

SpecMap == InitMap /\ [][NextMap]_vars

\* ------------------------------------------------------- concurrent calls
\* Db::read and Db::write are separate calls on the store and update awaits
\* get_events between its staleness test and its write, so a call running in
\* one task is two steps between which the other tasks may run.  Each task
\* makes one call.
Begin(t, op, pc, game_uuid, arg, events) ==
    /\ tasks[t].pc = "idle"
    /\ opCount < cap
    /\ tasks' = [tasks EXCEPT ![t] = [pc |-> pc, op |-> op, key |-> game_uuid, arg |-> arg,
                                      events |-> events, new_event |-> FALSE]]
    /\ opCount' = opCount + 1

\* store, line 235: the task reads the domain sequence
store_begin(t, game_uuid, event) ==
    /\ Begin(t, "store", "store", game_uuid, Some(event),
             unwrap_or_default(DbRead(db, game_uuid)))
    /\ UNCHANGED <<db_raw, db, now, fetched_at, cap, last, call, ret>>

\* variant of store_end: the record alone is written
store_end_overwrites(t) ==
    /\ tasks[t].pc = "store"
    /\ db' = DbWrite(db, tasks[t].key, <<tasks[t].arg[1]>>, now)
    /\ tasks' = [tasks EXCEPT ![t].pc = "done",
                              ![t].new_event = store_new_event(tasks[t].events, tasks[t].arg[1])]
    /\ UNCHANGED <<db_raw, now, fetched_at, opCount, cap, last, call, ret>>

\* store, lines 236-245: the task merges the record into what it read,
\* writes the result and returns
store_end(t) ==
    /\ tasks[t].pc = "store"
    /\ db' = DbWrite(db, tasks[t].key, store_events(tasks[t].events, tasks[t].arg[1]), now)
    /\ tasks' = [tasks EXCEPT ![t].pc = "done",
                              ![t].new_event = store_new_event(tasks[t].events, tasks[t].arg[1])]
    /\ UNCHANGED <<db_raw, now, fetched_at, opCount, cap, last, call, ret>>

\* store_raw, line 220
store_raw_begin(t, game_uuid, event) ==
    /\ Begin(t, "store_raw", "store_raw", game_uuid, Some(event),
             unwrap_or_default(DbRead(db_raw, game_uuid)))
    /\ UNCHANGED <<db_raw, db, now, fetched_at, cap, last, call, ret>>

\* store_raw, lines 221-230
store_raw_end(t) ==
    /\ tasks[t].pc = "store_raw"
    /\ db_raw' = DbWrite(db_raw, tasks[t].key,
                         store_raw_events(tasks[t].events, tasks[t].arg[1]), now)
    /\ tasks' = [tasks EXCEPT ![t].pc = "done",
                              ![t].new_event =
                                  store_raw_new_event(tasks[t].events, tasks[t].arg[1])]
    /\ UNCHANGED <<db, now, fetched_at, opCount, cap, last, call, ret>>

\* update, lines 208-211: with the cache fresh the task reads the raw
\* sequence; with the cache stale it calls get_events and is suspended
update_begin(t, game_uuid, throttle_s) ==
    /\ IF update_uses_cache(db_raw, game_uuid, throttle_s, now)
       THEN /\ Begin(t, "update", "update_cached", game_uuid, None,
                     unwrap_or_default(DbRead(db_raw, game_uuid)))
            /\ UNCHANGED fetched_at
       ELSE /\ Begin(t, "update", "update_fetching", game_uuid, None, <<>>)
            /\ fetched_at' = [fetched_at EXCEPT ![game_uuid] = Some(now)]
    /\ UNCHANGED <<db_raw, db, now, cap, last, call, ret>>

\* update, lines 213-215 on the cached branch
update_end_cached(t) ==
    /\ tasks[t].pc = "update_cached"
    /\ db_raw' = update_write(db_raw, tasks[t].key, tasks[t].events, now)
    /\ tasks' = [tasks EXCEPT ![t].pc = "done"]
    /\ UNCHANGED <<db, now, fetched_at, opCount, cap, last, call, ret>>

\* update, lines 211-215 when get_events answers rsp
update_end_fetched(t, rsp) ==
    /\ tasks[t].pc = "update_fetching"
    /\ db_raw' = update_write(db_raw, tasks[t].key, unwrap_or_default(rsp), now)
    /\ tasks' = [tasks EXCEPT ![t].pc = "done", ![t].events = unwrap_or_default(rsp)]
    /\ UNCHANGED <<db, now, fetched_at, opCount, cap, last, call, ret>>

NextRace ==
    \/ \E t \in Tasks, k \in Keys : \E e \in ApiGameEvents(k) : store_begin(t, k, e)
    \/ \E t \in Tasks : store_end(t)
    \/ \E t \in Tasks, k \in Keys, e \in RawEvents : store_raw_begin(t, k, e)
    \/ \E t \in Tasks : store_raw_end(t)
    \/ \E t \in Tasks, k \in Keys, throttle_s \in Throttles : update_begin(t, k, throttle_s)
    \/ \E t \in Tasks : update_end_cached(t)
    \/ \E t \in Tasks, rsp \in FetchResults : update_end_fetched(t, rsp)
    \/ Tick

InitRace == Empty /\ Quiet /\ cap = Cardinality(Tasks)

SpecRace == InitRace /\ [][NextRace]_vars

\* ----------------------------------------------------------------- claims
\* a call update(k, t), whichever branch it takes
UpdateCall(k, t) ==
    \/ update_cached(k, t)
    \/ \E rsp \in FetchResults : update_fetch(k, t, rsp)

\* the stored sequence of a namespace entry, empty when nothing is stored
Stored(d, k) == IF d[k] = None THEN <<>> ELSE d[k][1].val

\* m is the mapping of the raw sequence s for game k, record by record
IsMappingOf(m, s, k) ==
    /\ Len(m) = Len(s)
    /\ \A i \in 1..Len(s) :
          /\ m[i].event_id = format(s[i].eventId)
          /\ m[i].revision = s[i].revision
          /\ m[i].game_uuid = k

\* C1: when the last call was an update of k that fetched and wrote the raw
\* cache, an update of k with TTL T issued less than T after that write does
\* not call get_events and returns the mapping of the stored raw sequence.
C1_SecondUpdateWithinTTL ==
    [][\A k \in Keys, T \in 1..MaxTTL :
         (/\ last.op = "update" /\ last.key = k /\ last.fetched
          /\ db_raw[k] # None
          /\ now - db_raw[k][1].ts < T
          /\ UpdateCall(k, Some(T)))
         => (/\ ~last'.fetched
             /\ fetched_at' = fetched_at
             /\ last'.result # None
             /\ IsMappingOf(last'.result[1], Stored(db_raw, k), k))]_vars

\* two calls made: an update that fetched a non-empty sequence, then, later
\* but within the TTL, an update of the same key that was served from the cache
C1_Witness ==
    /\ opCount = 2
    /\ last.op = "update" /\ ~last.fetched
    /\ fetched_at[last.key] # None
    /\ now > fetched_at[last.key][1]
    /\ last.result # None /\ Len(last.result[1]) > 0

\* C2: an update of k with TTL T issued more than T after get_events was last
\* called for k calls get_events again, whatever update and store_raw calls
\* happened in between.
C2_UpdateAfterTTLFetches ==
    [][\A k \in Keys, T \in 1..MaxTTL :
         (/\ fetched_at[k] # None
          /\ now - fetched_at[k][1] > T
          /\ UpdateCall(k, Some(T)))
         => last'.fetched]_vars

\* C3: when update finds the key stale and get_events answers None, update
\* writes the empty sequence to the raw cache under the key and returns
\* Some of the empty sequence.
C3_FetchNothingWritesEmpty ==
    [][\A k \in Keys, t \in Throttles :
         update_fetch(k, t, None)
         => (/\ db_raw'[k] # None
             /\ db_raw'[k][1].val = <<>>
             /\ last'.op = "update"
             /\ last'.result = Some(<<>>))]_vars

\* an update has called get_events, got None, and returned Some of the
\* empty sequence; the raw entry of its key holds the empty sequence
C3_Witness ==
    /\ last.op = "update" /\ last.fetched
    /\ last.rsp = Some(None)
    /\ last.result = Some(<<>>)
    /\ db_raw[last.key] # None /\ db_raw[last.key][1].val = <<>>

\* C4: events that the last update of k returned remain readable after an
\* update of k whose fetch fails: read(k) still returns every such event id.
C4_EventsSurviveFailedFetch ==
    [][\A k \in Keys, t \in Throttles :
         (/\ last.op = "update" /\ last.key = k /\ last.result # None
          /\ update_fetch(k, t, None))
         => \A i \in 1..Len(last.result[1]) :
               \E j \in 1..Len(read_events(db_raw', k)) :
                  format(read_events(db_raw', k)[j].eventId) = last.result[1][i].event_id]_vars

\* the stored sequences of both namespaces are what the claims on upserts
\* are about: S before the call, S2 after it
InPlace(S, S2, e, SameId(_, _)) ==
    IF \E i \in 1..Len(S) : SameId(S[i], e)
    THEN /\ Len(S2) = Len(S)
         /\ \E p \in 1..Len(S) :
               /\ SameId(S[p], e)
               /\ S2[p] = e
               /\ \A j \in 1..Len(S) : j # p => S2[j] = S[j]
    ELSE /\ Len(S2) = Len(S) + 1
         /\ S2[Len(S2)] = e
         /\ \A j \in 1..Len(S) : S2[j] = S[j]

SameEventId(a, b) == a.event_id = b.event_id
SameRawEventId(a, b) == a.eventId = b.eventId

\* C5: store (store_raw) called twice in a row with the identical record and
\* key leaves the stored sequence after the second call equal, in content
\* and order, to the sequence after the first call.
C5_UpsertIdempotent ==
    [][/\ \A k \in Keys : \A e \in ApiGameEvents(k) :
            (SameCall("store", k, e) /\ store(k, e)) => Stored(db', k) = Stored(db, k)
       /\ \A k \in Keys : \A e \in RawEvents :
            (SameCall("store_raw", k, e) /\ store_raw(k, e))
            => Stored(db_raw', k) = Stored(db_raw, k)]_vars

\* store was called twice in a row with the same record while the sequence
\* held a record of another id as well
C5_Witness ==
    /\ last.op = "store" /\ last.again
    /\ Len(Stored(db, last.key)) = 2
    /\ \E i \in 1..2 : Stored(db, last.key)[i] = last.arg[1]

\* C6: when the stored sequence holds a record with the id of the incoming
\* record, store / store_raw replaces it at the same index, the length is
\* unchanged and every other position keeps its record; otherwise the
\* incoming record is appended at the end.
C6_MergeByIdentity ==
    [][/\ \A k \in Keys : \A e \in ApiGameEvents(k) :
            store(k, e) => InPlace(Stored(db, k), Stored(db', k), e, SameEventId)
       /\ \A k \in Keys : \A e \in RawEvents :
            store_raw(k, e)
            => InPlace(Stored(db_raw, k), Stored(db_raw', k), e, SameRawEventId)]_vars

\* store_raw has replaced the first of two stored records by another revision
C6_Witness ==
    /\ last.op = "store_raw" /\ ~last.new_event
    /\ last.old # None /\ last.old # last.arg
    /\ Len(Stored(db_raw, last.key)) = 2
    /\ Stored(db_raw, last.key)[1] = last.arg[1]
    /\ Stored(db_raw, last.key)[2].eventId # last.arg[1].eventId

\* C7: store / store_raw returns true exactly when no record with the
\* incoming record's id was stored under the key before the call.
C7_NewEventFlag ==
    [][/\ \A k \in Keys : \A e \in ApiGameEvents(k) :
            store(k, e)
            => (last'.new_event
                <=> ~\E i \in 1..Len(Stored(db, k)) : Stored(db, k)[i].event_id = e.event_id)
       /\ \A k \in Keys : \A e \in RawEvents :
            store_raw(k, e)
            => (last'.new_event
                <=> ~\E i \in 1..Len(Stored(db_raw, k)) :
                        Stored(db_raw, k)[i].eventId = e.eventId)]_vars

\* store_raw has returned false: it replaced a stored record
C7_Witness ==
    /\ last.op = "store_raw" /\ ~last.new_event
    /\ last.old # None
    /\ \E i \in 1..Len(Stored(db_raw, last.key)) : Stored(db_raw, last.key)[i] = last.arg[1]

\* C8: read does not call get_events and writes nothing: it returns the
\* sequence stored in the raw namespace under the key, the empty sequence
\* when there is none, and leaves every entry of both namespaces as it was.
C8_ReadOnly ==
    [][\A k \in Keys :
         read(k)
         => (/\ db_raw' = db_raw
             /\ db' = db
             /\ fetched_at' = fetched_at
             /\ ~last'.fetched
             /\ last'.events = (IF db_raw[k] = None THEN <<>> ELSE db_raw[k][1].val))]_vars

\* read has returned a stored record written at an earlier time
C8_Witness ==
    /\ last.op = "read"
    /\ Len(last.events) > 0
    /\ db_raw[last.key] # None
    /\ db_raw[last.key][1].val = last.events
    /\ db_raw[last.key][1].ts < now

\* C9: after update(k) returns the records R, the domain namespace holds
\* under k a record for every id in R.
C9_UpdateReconcilesDomainStore ==
    [][\A k \in Keys, t \in Throttles :
         UpdateCall(k, t)
         => \A i \in 1..Len(last'.result[1]) :
               \E j \in 1..Len(Stored(db', k)) :
                  Stored(db', k)[j].event_id = last'.result[1][i].event_id]_vars

\* C10: after store(k, r) or store_raw(k, r) the stored record with r's id
\* (the first one of that id) equals r, whatever the revision of the record
\* it replaced.
C10_LastWriteWins ==
    [][/\ \A k \in Keys : \A e \in ApiGameEvents(k) :
            store(k, e)
            => \E p \in 1..Len(Stored(db', k)) :
                  /\ Stored(db', k)[p] = e
                  /\ \A j \in 1..(p - 1) : Stored(db', k)[j].event_id # e.event_id
       /\ \A k \in Keys : \A e \in RawEvents :
            store_raw(k, e)
            => \E p \in 1..Len(Stored(db_raw', k)) :
                  /\ Stored(db_raw', k)[p] = e
                  /\ \A j \in 1..(p - 1) : Stored(db_raw', k)[j].eventId # e.eventId]_vars

\* store has overwritten a record by one of lower revision
C10_Witness ==
    /\ last.op = "store" /\ last.old # None
    /\ last.old[1].revision > last.arg[1].revision
    /\ \E i \in 1..Len(Stored(db, last.key)) : Stored(db, last.key)[i] = last.arg[1]
    /\ \A i \in 1..Len(Stored(db, last.key)) : Stored(db, last.key)[i] # last.old[1]

\* C11: PenaltyInfo::new on a description without the marker "utvisas "
\* yields player, penalty and reason all None.
C11_NoMarkerNoFields ==
    (/\ call.fn = "PenaltyInfo::new" /\ ret # None
     /\ find(call.description, <<"u", "t", "v", "i", "s", "a", "s", " ">>) = 0)
    => (/\ ret[1].player = None
        /\ ret[1].penalty = None
        /\ ret[1].reason = None)

\* C12: PenaltyInfo::new on "5 Karl Karlsson utvisas 2 min, Hooking" yields
\* jersey "5", first name "Karl", family name "Karlsson", penalty "2 min"
\* and reason "Hooking".
C12_PenaltySplitExample ==
    (/\ call.fn = "PenaltyInfo::new" /\ ret # None
     /\ call.description = <<"5", " ", "K", "a", "r", "l", " ", "K", "a", "r", "l", "s", "s", "o", "n", " ", "u", "t", "v", "i", "s", "a", "s", " ", "2", " ", "m", "i", "n", ",", " ", "H", "o", "o", "k", "i", "n", "g">>)
    => (/\ ret[1].player = Some([jersey |-> <<"5">>, first_name |-> <<"K", "a", "r", "l">>,
                                 family_name |-> <<"K", "a", "r", "l", "s", "s", "o", "n">>])
        /\ ret[1].penalty = Some(<<"2", " ", "m", "i", "n">>)
        /\ ret[1].reason = Some(<<"H", "o", "o", "k", "i", "n", "g">>))

\* C13: for a raw period event to_type yields PeriodStart when the game
\* status is exactly "Playing" and PeriodEnd for every other string.
C13_PeriodClassification ==
    (call.fn = "to_type" /\ ret # None /\ call.event.class = "Period")
    => (/\ ret[1].tag \in {"PeriodStart", "PeriodEnd"}
        /\ ret[1].tag = "PeriodStart" <=> call.event.gameStatus = <<"P", "l", "a", "y", "i", "n", "g">>)

\* to_type has classified a period event whose status is "playing", in
\* lower case, as PeriodEnd
C13_Witness ==
    /\ call.fn = "to_type" /\ ret # None
    /\ call.event.class = "Period"
    /\ call.event.gameStatus = <<"p", "l", "a", "y", "i", "n", "g">>
    /\ ret[1].tag = "PeriodEnd"

\* C14: should_publish is true exactly for the Goal, GameStart and GameEnd
\* variants and false for the six others, whatever else the event carries.
C14_PublishByVariant ==
    (call.fn = "should_publish" /\ ret # None)
    => (/\ call.event.info.tag \in {"Goal", "GameStart", "GameEnd"} => ret[1] = TRUE
        /\ call.event.info.tag \in {"PeriodStart", "PeriodEnd", "Penalty", "Shot",
                                    "Timeout", "General"} => ret[1] = FALSE)

\* should_publish has answered true for the end of a game without a winner
C14_Witness ==
    /\ call.fn = "should_publish" /\ ret = Some(TRUE)
    /\ call.event.info.tag = "GameEnd"
    /\ call.event.info.info.winner = None

\* the number written in a part of a time-on-ice string: 0 when the part is
\* missing or not made of digits, None when it is beyond what i32 holds
WrittenNumber(part) ==
    IF part = <<>> THEN Some(0)
    ELSE IF \E i \in 1..Len(part) : ~IsDigit(part[i]) THEN Some(0)
    ELSE checked_decimal(part, FALSE)

\* C15: parse_toi returns, for every string, minutes * 60 + seconds, where
\* minutes is the number written before the first colon and seconds the
\* number written after it, each 0 when missing or not a number.
C15_ParseToiTotal ==
    (call.fn = "parse_toi" /\ ret # None)
    => LET i == find(call.s, <<":">>)
           minutes == WrittenNumber(IF i = 0 THEN call.s ELSE SubSeq(call.s, 1, i - 1))
           seconds == WrittenNumber(IF i = 0 THEN <<>> ELSE SubSeq(call.s, i + 1, Len(call.s)))
       IN  /\ ~ret[1].panicked
           /\ minutes # None /\ seconds # None
           /\ ~mul60_overflows(minutes[1])
           /\ ~add_overflows(minutes[1] * 60, seconds[1])
           /\ ret[1].value = minutes[1] * 60 + seconds[1]

\* the four statistics of a snapshot and the captions they are read from
StatFields == {<<"g", "G">>, <<"sog", "SOG">>, <<"pim", "PIM">>, <<"fow", "FOWon">>}

\* the value the snapshot r holds for a statistic
FieldOf(team, f) ==
    CASE f = "g" -> team.g [] f = "sog" -> team.sog [] f = "pim" -> team.pim
      [] f = "fow" -> team.fow

\* C16: each of the four statistics is taken from the first entry with its
\* caption in the first period entry labelled "Total"; a caption missing
\* there gives 0 for home and away for that statistic alone; without a
\* "Total" period all four are 0 for both teams.
C16_StatSnapshot ==
    (call.fn = "GHomeAwayStats::from" /\ ret # None)
    => LET b == call.breakdown
           totals == {i \in 1..Len(b) : b[i].period = "Total"}
       IN  \A fc \in StatFields :
              LET home == FieldOf(ret[1].home, fc[1])
                  away == FieldOf(ret[1].away, fc[1])
              IN  IF totals = {} THEN home = 0 /\ away = 0
                  ELSE LET st == b[CHOOSE i \in totals : \A j \in totals : i <= j].statistics
                           at == {i \in 1..Len(st) : st[i].caption = fc[2]}
                       IN  IF at = {} THEN home = 0 /\ away = 0
                           ELSE LET e == st[CHOOSE i \in at : \A j \in at : i <= j]
                                IN  home = e.homeTeamValue /\ away = e.awayTeamValue

\* a snapshot was taken from a breakdown whose "Total" period comes after
\* another period and lacks the caption G: the goals are 0 for both teams
\* while another statistic is not
C16_Witness ==
    /\ call.fn = "GHomeAwayStats::from" /\ ret # None
    /\ Len(call.breakdown) >= 2
    /\ call.breakdown[1].period # "Total"
    /\ call.breakdown[2].period = "Total"
    /\ ret[1].home.g = 0 /\ ret[1].away.g = 0
    /\ ret[1].home.sog # 0 /\ ret[1].away.pim # 0

\* every id of the sequence S is an id of the sequence S2
IdsKept(S, S2, SameId(_, _)) ==
    \A i \in 1..Len(S) : \E j \in 1..Len(S2) : SameId(S[i], S2[j])

\* C17, run one after the other: a store / store_raw that ends while the
\* entry still holds what the call read loses no stored record and stores
\* its own.
C17_NoLossWithoutInterleaving ==
    [][\A t \in Tasks :
         /\ (store_end(t) /\ tasks[t].events = Stored(db, tasks[t].key))
            => (/\ IdsKept(Stored(db, tasks[t].key), Stored(db', tasks[t].key), SameEventId)
                /\ \E j \in 1..Len(Stored(db', tasks[t].key)) :
                      Stored(db', tasks[t].key)[j] = tasks[t].arg[1])
         /\ (store_raw_end(t) /\ tasks[t].events = Stored(db_raw, tasks[t].key))
            => (/\ IdsKept(Stored(db_raw, tasks[t].key), Stored(db_raw', tasks[t].key),
                           SameRawEventId)
                /\ \E j \in 1..Len(Stored(db_raw', tasks[t].key)) :
                      Stored(db_raw', tasks[t].key)[j] = tasks[t].arg[1])]_vars

\* C17, the race: two store calls on one key with different ids have both
\* returned true and the stored sequence lacks the record of one of them
C17_Witness ==
    \E a \in Tasks, b \in Tasks :
       /\ a # b
       /\ tasks[a].pc = "done" /\ tasks[b].pc = "done"
       /\ tasks[a].op = "store" /\ tasks[b].op = "store"
       /\ tasks[a].key = tasks[b].key
       /\ tasks[a].arg[1].event_id # tasks[b].arg[1].event_id
       /\ tasks[a].new_event /\ tasks[b].new_event
       /\ \A j \in 1..Len(Stored(db, tasks[a].key)) :
             Stored(db, tasks[a].key)[j].event_id # tasks[a].arg[1].event_id

\* C18: with TTL T, an update of k that starts less than T after get_events
\* was last called for k does not call get_events, also when the call that
\* made that request is still suspended on it.
C18_FetchThrottledPerKey ==
    [][\A t \in Tasks, k \in Keys, T \in 1..MaxTTL :
         (/\ fetched_at[k] # None
          /\ now - fetched_at[k][1] < T
          /\ update_begin(t, k, Some(T)))
         => fetched_at' = fetched_at]_vars

\* no two records of the raw sequence S, or of the domain sequence S, have
\* the same event id
UniqueRawIds(S) == \A i \in 1..Len(S), j \in 1..Len(S) : S[i].eventId = S[j].eventId => i = j
UniqueIds(S) == \A i \in 1..Len(S), j \in 1..Len(S) : S[i].event_id = S[j].event_id => i = j

\* the stored sequences, and the sequences the calls in progress have read,
\* hold each id once
AllUnique ==
    /\ \A k \in Keys : UniqueRawIds(Stored(db_raw, k)) /\ UniqueIds(Stored(db, k))
    /\ \A t \in Tasks :
          IF tasks[t].op = "store" THEN UniqueIds(tasks[t].events)
          ELSE UniqueRawIds(tasks[t].events)

\* C19: starting from the empty store, every step of update, store_raw and
\* store, in whatever interleaving, keeps the event ids of every stored
\* sequence unique, unless get_events answers a sequence that repeats an id.
C19_UniqueIds ==
    [][(/\ AllUnique
        /\ ~\E t \in Tasks, rsp \in FetchResults :
              /\ ~UniqueRawIds(unwrap_or_default(rsp))
              /\ update_end_fetched(t, rsp))
       => AllUnique']_vars

\* two store calls on one key with the same id have raced, both returned
\* true, and the stored sequence holds that id once
C19_Witness ==
    \E a \in Tasks, b \in Tasks :
       /\ a # b
       /\ tasks[a].pc = "done" /\ tasks[b].pc = "done"
       /\ tasks[a].op = "store" /\ tasks[b].op = "store"
       /\ tasks[a].key = tasks[b].key
       /\ tasks[a].arg[1].event_id = tasks[b].arg[1].event_id
       /\ tasks[a].new_event /\ tasks[b].new_event
       /\ Len(Stored(db, tasks[a].key)) = 1

\* the records of S whose id is not that of e are in S2 where they were in S
OthersKept(S, S2, e, SameId(_, _)) ==
    \A i \in 1..Len(S) : ~SameId(S[i], e) => (i <= Len(S2) /\ S2[i] = S[i])

\* C20: store(k, e) changes nothing but the domain entry of k, store_raw(k, e)
\* nothing but the raw entry of k, and in the changed entry every record of
\* another id keeps its position and content.
C20_UpsertFrame ==
    [][/\ \A k \in Keys : \A e \in ApiGameEvents(k) :
            store(k, e)
            => (/\ db_raw' = db_raw
                /\ \A k2 \in Keys \ {k} : db'[k2] = db[k2]
                /\ OthersKept(Stored(db, k), Stored(db', k), e, SameEventId))
       /\ \A k \in Keys : \A e \in RawEvents :
            store_raw(k, e)
            => (/\ db' = db
                /\ \A k2 \in Keys \ {k} : db_raw'[k2] = db_raw[k2]
                /\ OthersKept(Stored(db_raw, k), Stored(db_raw', k), e, SameRawEventId))]_vars

\* store_raw has appended a second raw record while the domain namespace
\* held a record
C20_Witness ==
    /\ last.op = "store_raw" /\ last.new_event
    /\ Len(Stored(db_raw, last.key)) = 2
    /\ \E k \in Keys : Len(Stored(db, k)) > 0

====
